---- MODULE Spec2Model ----
(***************************************************************************)
(* Streaming UTF-8 decoder (UTF8Decoder, src/__init__.py).                 *)
(*                                                                         *)
(* A decoder instance is a record `self`; every method of the class is an  *)
(* operator from the record before the call to the record after it plus    *)
(* the value returned or the exception raised.  The module's variables are *)
(* the fields of one live decoder, the supplier it reads from and what its *)
(* caller has observed so far.                                             *)
(***************************************************************************)
EXTENDS Integers, Sequences, FiniteSets, TLC

VARIABLES
    stream,                  \* the bytes the supplier holds (self.stream)
    pos,                     \* the supplier's cursor: index of the next byte
    errors,                  \* self.errors
    disallow_nonchars,       \* self.disallow_nonchars
    byte_num,                \* self.byte_num
    first_read,              \* self.first_read
    num_pending_replacement, \* self.num_pending_replacement
    stuffed_byte,            \* self.stuffed_byte
    out,                     \* characters returned to the caller so far
    result,                  \* outcome of the latest next() call
    log,                     \* every error() invocation so far (history)
    leads,                   \* every byte examined as a leading byte (history)
    starts,                  \* the supplier's cursor when each of them was
                             \* about to be obtained (history)
    read_result,             \* outcome of read(), when it was the latest call,
                             \* its argument and the next() calls it made
    calls,                   \* number of next() calls made
    calls_after_end          \* next() calls made after StopIteration

vars == <<stream, pos, errors, disallow_nonchars, byte_num, first_read,
          num_pending_replacement, stuffed_byte, out, result, log, leads,
          starts, read_result, calls, calls_after_end>>

----------------------------------------------------------------------------
(* Constants of the module                                                  *)

REPLACEMENT_CHAR == 65533

STRICT == 0

REPLACE == 1

IGNORE == 2

MAX_CODEPOINT == 1114111

\* Python's None in self.stuffed_byte
None == -1

----------------------------------------------------------------------------
(* Bounds of the model                                                      *)

\* longest stream drawn from Alphabet
MaxLen == 3

\* next() calls the caller still makes after the first StopIteration
MaxCallsAfterEnd == 2

\* largest argument the caller gives read()
MaxRead == 2

----------------------------------------------------------------------------
(* Integer bit operations, as Python computes them on non-negative ints     *)

RECURSIVE BitAnd(_, _)
BitAnd(a, b) ==
    IF a = 0 \/ b = 0 THEN 0
    ELSE (a % 2) * (b % 2) + 2 * BitAnd(a \div 2, b \div 2)

RECURSIVE BitOr(_, _)
BitOr(a, b) ==
    IF a = 0 THEN b
    ELSE IF b = 0 THEN a
    ELSE (IF a % 2 = 1 \/ b % 2 = 1 THEN 1 ELSE 0)
         + 2 * BitOr(a \div 2, b \div 2)

Shl(a, k) == a * (2 ^ k)

----------------------------------------------------------------------------
(* Results of a call: the decoder after it, and what the caller sees        *)

Return(self, c) == [self |-> self, kind |-> "char", val |-> c]

Raise(self, exc, arg) == [self |-> self, kind |-> exc, val |-> arg]

\* chr(): defined on 0..0x10ffff, ValueError elsewhere
chr(self, codepoint) ==
    IF codepoint >= 0 /\ codepoint <= 1114111
    THEN Return(self, codepoint)
    ELSE Raise(self, "ValueError", codepoint)

----------------------------------------------------------------------------
(* UTF8Decoder.stuff_byte                                                   *)

\* stuff_byte that forgets the byte
stuff_byte_lost(self, b) == [self |-> self, exc |-> ""]

\* stuff_byte that asserts that the lookahead is occupied
stuff_byte_occupied(self, b) ==
    IF self.stuffed_byte = None
    THEN [self |-> self, exc |-> "AssertionError"]
    ELSE [self |-> [self EXCEPT !.stuffed_byte = b], exc |-> ""]

stuff_byte(self, b) ==
    IF self.stuffed_byte /= None
    THEN [self |-> self, exc |-> "AssertionError"]
    ELSE [self |-> [self EXCEPT !.stuffed_byte = b], exc |-> ""]

\* read_one that takes the b'' of an exhausted stream for a NUL byte
read_one_no_eof(self) ==
    IF self.stuffed_byte /= None
    THEN [self |-> [self EXCEPT !.stuffed_byte = None],
          b |-> self.stuffed_byte, exc |-> ""]
    ELSE LET s1 == [self EXCEPT !.byte_num = @ + 1, !.first_read = FALSE]
         IN  IF self.pos > Len(self.stream)
             THEN [self |-> s1, b |-> 0, exc |-> ""]
             ELSE [self |-> [s1 EXCEPT !.pos = @ + 1],
                   b |-> self.stream[self.pos], exc |-> ""]

(* UTF8Decoder.read_one: the stuffed byte if there is one, else the next    *)
(* byte of the stream; byte_num is incremented before the stream's answer   *)
(* is examined, so also when the answer is b''.  Every supplier here is a  *)
(* bytes stream, so the isinstance assertion of the first read passes and   *)
(* only clears first_read.                                                  *)
read_one(self) ==
    IF self.stuffed_byte /= None
    THEN [self |-> [self EXCEPT !.stuffed_byte = None],
          b |-> self.stuffed_byte, exc |-> ""]
    ELSE LET s1 == [self EXCEPT !.byte_num = @ + 1, !.first_read = FALSE]
         IN  IF self.pos > Len(self.stream)
             THEN [self |-> s1, b |-> None, exc |-> "StopIteration"]
             ELSE [self |-> [s1 EXCEPT !.pos = @ + 1],
                   b |-> self.stream[self.pos], exc |-> ""]

----------------------------------------------------------------------------
(* UTF8Decoder.error and UTF8Decoder.__next__ (mutually recursive: under    *)
(* IGNORE error() returns next(self))                                       *)

RECURSIVE next(_)

\* The history entry error() leaves: the attempt's number and leading byte,
\* the num_consumed_bytes argument, the supplier's cursor just after the
\* leading byte was obtained and when the error was raised, the lookahead
\* and byte_num at that moment, and the branch that called error().
LogEntry(self, num_consumed_bytes) ==
    [k |-> Len(self.leads),
     why |-> self.attempt.why,
     lead |-> self.attempt.lead,
     n |-> num_consumed_bytes,
     from |-> self.attempt.pos,
     to |-> self.pos,
     stuffed |-> self.stuffed_byte,
     byte_num |-> self.byte_num]

\* error that owes one replacement less
error_owes_less(self, num_consumed_bytes) ==
    LET s0 == [self EXCEPT !.log = Append(@, LogEntry(self, num_consumed_bytes))]
    IN  IF s0.errors = REPLACE
        THEN Return([s0 EXCEPT !.num_pending_replacement =
                                    @ + num_consumed_bytes - 2],
                    REPLACEMENT_CHAR)
        ELSE IF s0.errors = IGNORE
        THEN next(s0)
        ELSE Raise(s0, "InvalidUTF8Encoding", s0.byte_num)

\* error that empties the lookahead before the retry under IGNORE
error_drops_lookahead(self, num_consumed_bytes) ==
    LET s0 == [self EXCEPT !.log = Append(@, LogEntry(self, num_consumed_bytes))]
    IN  IF s0.errors = REPLACE
        THEN Return([s0 EXCEPT !.num_pending_replacement =
                                    @ + num_consumed_bytes - 1],
                    REPLACEMENT_CHAR)
        ELSE IF s0.errors = IGNORE
        THEN next([s0 EXCEPT !.stuffed_byte = None])
        ELSE Raise(s0, "InvalidUTF8Encoding", s0.byte_num)

\* error that owes a replacement for every consumed byte on top of the one
\* it returns
error_owes_more(self, num_consumed_bytes) ==
    LET s0 == [self EXCEPT !.log = Append(@, LogEntry(self, num_consumed_bytes))]
    IN  IF s0.errors = REPLACE
        THEN Return([s0 EXCEPT !.num_pending_replacement =
                                    @ + num_consumed_bytes],
                    REPLACEMENT_CHAR)
        ELSE IF s0.errors = IGNORE
        THEN next(s0)
        ELSE Raise(s0, "InvalidUTF8Encoding", s0.byte_num)

error(self, num_consumed_bytes) ==
    LET s0 == [self EXCEPT !.log = Append(@, LogEntry(self, num_consumed_bytes))]
    IN  IF s0.errors = REPLACE
        THEN Return([s0 EXCEPT !.num_pending_replacement =
                                    @ + num_consumed_bytes - 1],
                    REPLACEMENT_CHAR)
        ELSE IF s0.errors = IGNORE
        THEN next(s0)
        ELSE Raise(s0, "InvalidUTF8Encoding", s0.byte_num)

\* LeadingByte whose last error branch tests >= 0xff
LeadingByte_ff(leading_byte) ==
    IF BitAnd(leading_byte, 224) = 192
    THEN [num_bytes |-> 2, codepoint |-> Shl(BitAnd(leading_byte, 31), 6)]
    ELSE IF BitAnd(leading_byte, 240) = 224
    THEN [num_bytes |-> 3, codepoint |-> Shl(BitAnd(leading_byte, 15), 12)]
    ELSE IF BitAnd(leading_byte, 248) = 240
    THEN [num_bytes |-> 4, codepoint |-> Shl(BitAnd(leading_byte, 7), 18)]
    ELSE IF BitAnd(leading_byte, 252) = 248
    THEN [num_bytes |-> 5, codepoint |-> Shl(BitAnd(leading_byte, 3), 24)]
    ELSE IF BitAnd(leading_byte, 254) = 252
    THEN [num_bytes |-> 6, codepoint |-> Shl(BitAnd(leading_byte, 1), 30)]
    ELSE IF BitAnd(leading_byte, 192) = 128
    THEN [num_bytes |-> 0, codepoint |-> 0]
    ELSE IF leading_byte >= 255
    THEN [num_bytes |-> 0, codepoint |-> 0]
    ELSE [num_bytes |-> -1, codepoint |-> 0]

\* LeadingByte that takes 1111110x to announce seven bytes
LeadingByte_7(leading_byte) ==
    IF BitAnd(leading_byte, 224) = 192
    THEN [num_bytes |-> 2, codepoint |-> Shl(BitAnd(leading_byte, 31), 6)]
    ELSE IF BitAnd(leading_byte, 240) = 224
    THEN [num_bytes |-> 3, codepoint |-> Shl(BitAnd(leading_byte, 15), 12)]
    ELSE IF BitAnd(leading_byte, 248) = 240
    THEN [num_bytes |-> 4, codepoint |-> Shl(BitAnd(leading_byte, 7), 18)]
    ELSE IF BitAnd(leading_byte, 252) = 248
    THEN [num_bytes |-> 5, codepoint |-> Shl(BitAnd(leading_byte, 3), 24)]
    ELSE IF BitAnd(leading_byte, 254) = 252
    THEN [num_bytes |-> 7, codepoint |-> 0]
    ELSE IF BitAnd(leading_byte, 192) = 128
    THEN [num_bytes |-> 0, codepoint |-> 0]
    ELSE IF leading_byte >= 254
    THEN [num_bytes |-> 0, codepoint |-> 0]
    ELSE [num_bytes |-> -1, codepoint |-> 0]

\* The if/elif chain on the leading byte's high bits (multi-byte case):
\* num_bytes and the initial codepoint; num_bytes = 0 stands for the two
\* error(1) branches and num_bytes = -1 for the final `raise AssertionError`.
LeadingByte(leading_byte) ==
    IF BitAnd(leading_byte, 224) = 192
    THEN [num_bytes |-> 2, codepoint |-> Shl(BitAnd(leading_byte, 31), 6)]
    ELSE IF BitAnd(leading_byte, 240) = 224
    THEN [num_bytes |-> 3, codepoint |-> Shl(BitAnd(leading_byte, 15), 12)]
    ELSE IF BitAnd(leading_byte, 248) = 240
    THEN [num_bytes |-> 4, codepoint |-> Shl(BitAnd(leading_byte, 7), 18)]
    ELSE IF BitAnd(leading_byte, 252) = 248
    THEN [num_bytes |-> 5, codepoint |-> Shl(BitAnd(leading_byte, 3), 24)]
    ELSE IF BitAnd(leading_byte, 254) = 252
    THEN [num_bytes |-> 6, codepoint |-> Shl(BitAnd(leading_byte, 1), 30)]
    ELSE IF BitAnd(leading_byte, 192) = 128
    THEN [num_bytes |-> 0, codepoint |-> 0]
    ELSE IF leading_byte >= 254
    THEN [num_bytes |-> 0, codepoint |-> 0]
    ELSE [num_bytes |-> -1, codepoint |-> 0]

\* the reserved-byte test with the wrong constant (0xee)
IsReservedLeadingByte_ee(leading_byte) == leading_byte = 238

\* the reserved-byte test left out
IsReservedLeadingByte_never(leading_byte) == FALSE

\* leading_byte == 0xed
IsReservedLeadingByte(leading_byte) == leading_byte = 237

\* byte & 0b11000000 != 0b10000000
NotContinuation(byte) == BitAnd(byte, 192) /= 128

\* codepoint |= ((byte & 0b00111111) << ((bytes_remaining - 1) * 6))
Fold(codepoint, byte, bytes_remaining) ==
    BitOr(codepoint, Shl(BitAnd(byte, 63), (bytes_remaining - 1) * 6))

\* the loop without its range check
ExceedsMax_never(num_bytes, codepoint) == FALSE

\* num_bytes >= 4 and codepoint > MAX_CODEPOINT
ExceedsMax(num_bytes, codepoint) ==
    num_bytes >= 4 /\ codepoint > MAX_CODEPOINT

\* the exhausted-stream count taken as in the two other error branches
ExhaustedConsumed_plus1(num_bytes, bytes_remaining) ==
    num_bytes - bytes_remaining + 1

\* the argument of error() when the stream is exhausted inside a sequence
ExhaustedConsumed(num_bytes, bytes_remaining) == num_bytes - bytes_remaining

\* the argument of error() for a non-continuation byte or an over-range value
SlotConsumed(num_bytes, bytes_remaining) == num_bytes - bytes_remaining + 1

\* the overlong test without its 2-byte case
IsOverlong_no2(num_bytes, codepoint) ==
    \/ num_bytes = 3 /\ codepoint < 2048
    \/ num_bytes = 4 /\ codepoint < 65536
    \/ num_bytes = 5 /\ codepoint < 2097152
    \/ num_bytes = 6 /\ codepoint < 67108864

\* the overlong test without its 3-byte line
IsOverlong_no3(num_bytes, codepoint) ==
    \/ num_bytes = 2 /\ codepoint < 128
    \/ num_bytes = 4 /\ codepoint < 65536
    \/ num_bytes = 5 /\ codepoint < 2097152
    \/ num_bytes = 6 /\ codepoint < 67108864

\* "Disallow overlong encodings"
IsOverlong(num_bytes, codepoint) ==
    \/ num_bytes = 2 /\ codepoint < 128
    \/ num_bytes = 3 /\ codepoint < 2048
    \/ num_bytes = 4 /\ codepoint < 65536
    \/ num_bytes = 5 /\ codepoint < 2097152
    \/ num_bytes = 6 /\ codepoint < 67108864

\* "Check for other invalid values"
IsInvalidLeading(leading_byte, codepoint) ==
    \/ leading_byte = 224 /\ codepoint < 2048
    \/ leading_byte = 240 /\ codepoint < 65536

\* the noncharacter test starting at 0xffff
IsNonchar_ffff(codepoint) ==
    codepoint >= 65535 \/ (64976 <= codepoint /\ codepoint <= 65007)

\* codepoint >= 0xfffe or 0xfdd0 <= codepoint <= 0xfdef
IsNonchar(codepoint) ==
    codepoint >= 65534 \/ (64976 <= codepoint /\ codepoint <= 65007)

\* Notes in the history which branch is about to call error().
Because(self, why) == [self EXCEPT !.attempt.why = why]

\* What follows the `while bytes_remaining` loop.
Finish(self, leading_byte, num_bytes, codepoint) ==
    IF IsOverlong(num_bytes, codepoint)
    THEN error(Because(self, "overlong"), num_bytes)
    ELSE IF IsInvalidLeading(leading_byte, codepoint)
    THEN error(Because(self, "invalid leading byte"), num_bytes)
    ELSE IF self.disallow_nonchars /\ IsNonchar(codepoint)
    THEN error(Because(self, "disallowed character"), 1)
    ELSE chr(self, codepoint)

\* The `while bytes_remaining` loop, one iteration per unfolding.
RECURSIVE Continuation(_, _, _, _, _)
Continuation(self, leading_byte, num_bytes, codepoint, bytes_remaining) ==
    IF bytes_remaining = 0
    THEN Finish(self, leading_byte, num_bytes, codepoint)
    ELSE LET r == read_one(self) IN
         IF r.exc = "StopIteration"
         THEN error(Because(r.self, "stream exhausted"),
                    ExhaustedConsumed(num_bytes, bytes_remaining))
         ELSE IF NotContinuation(r.b)
         THEN LET st == stuff_byte(r.self, r.b) IN
              IF st.exc /= ""
              THEN Raise(st.self, st.exc, 0)
              ELSE error(Because(st.self, "not a continuation byte"),
                         SlotConsumed(num_bytes, bytes_remaining))
         ELSE LET cp == Fold(codepoint, r.b, bytes_remaining) IN
              IF ExceedsMax(num_bytes, cp)
              THEN error(Because(r.self, "exceeds max"),
                         SlotConsumed(num_bytes, bytes_remaining))
              ELSE Continuation(r.self, leading_byte, num_bytes, cp,
                                bytes_remaining - 1)

\* next that serves the lookahead byte before the replacements still owed
next_lookahead_first(self) ==
    IF self.num_pending_replacement > 0 /\ self.stuffed_byte = None
    THEN Return([self EXCEPT !.num_pending_replacement = @ - 1],
                REPLACEMENT_CHAR)
    ELSE LET r == read_one(self) IN
         IF r.exc /= ""
         THEN Raise(r.self, r.exc, 0)
         ELSE LET leading_byte == r.b
                  s1 == [r.self EXCEPT !.attempt =
                                           [lead |-> leading_byte,
                                            pos |-> r.self.pos,
                                            why |-> ""],
                                       !.leads = Append(@, leading_byte),
                                       !.starts = Append(@, self.pos)]
                  c == LeadingByte(leading_byte)
              IN  IF BitAnd(leading_byte, 128) = 0
                  THEN chr(s1, leading_byte)
                  ELSE IF c.num_bytes = -1
                  THEN Raise(s1, "AssertionError", 0)
                  ELSE IF c.num_bytes = 0
                  THEN error(Because(s1, "no leading byte"), 1)
                  ELSE IF IsReservedLeadingByte(leading_byte)
                  THEN error(Because(s1, "reserved leading byte"), 1)
                  ELSE Continuation(s1, leading_byte, c.num_bytes,
                                    c.codepoint, c.num_bytes - 1)

next(self) ==
    IF self.num_pending_replacement > 0
    THEN Return([self EXCEPT !.num_pending_replacement = @ - 1],
                REPLACEMENT_CHAR)
    ELSE LET r == read_one(self) IN
         IF r.exc /= ""
         THEN Raise(r.self, r.exc, 0)
         ELSE LET leading_byte == r.b
                  s1 == [r.self EXCEPT !.attempt =
                                           [lead |-> leading_byte,
                                            pos |-> r.self.pos,
                                            why |-> ""],
                                       !.leads = Append(@, leading_byte),
                                       !.starts = Append(@, self.pos)]
                  c == LeadingByte(leading_byte)
              IN  IF BitAnd(leading_byte, 128) = 0
                  THEN chr(s1, leading_byte)
                  ELSE IF c.num_bytes = -1
                  THEN Raise(s1, "AssertionError", 0)
                  ELSE IF c.num_bytes = 0
                  THEN error(Because(s1, "no leading byte"), 1)
                  ELSE IF IsReservedLeadingByte(leading_byte)
                  THEN error(Because(s1, "reserved leading byte"), 1)
                  ELSE Continuation(s1, leading_byte, c.num_bytes,
                                    c.codepoint, c.num_bytes - 1)

----------------------------------------------------------------------------
(* The live decoder                                                         *)

\* The decoder instance assembled from the variables.  `attempt`, `log`,
\* `leads` and `starts` are history only: no branch of the decoder reads
\* them.
Self ==
    [stream |-> stream, pos |-> pos, errors |-> errors,
     disallow_nonchars |-> disallow_nonchars, byte_num |-> byte_num,
     first_read |-> first_read,
     num_pending_replacement |-> num_pending_replacement,
     stuffed_byte |-> stuffed_byte, log |-> log, leads |-> leads,
     starts |-> starts,
     attempt |-> [lead |-> None, pos |-> 0, why |-> ""]]

\* UTF8Decoder.__init__ on a supplier holding the bytes s
Construct(s, e, d) ==
    /\ stream = s
    /\ pos = 1
    /\ errors = e
    /\ disallow_nonchars = d
    /\ byte_num = 0
    /\ first_read = TRUE
    /\ num_pending_replacement = 0
    /\ stuffed_byte = None
    /\ out = <<>>
    /\ result = [kind |-> "none", val |-> 0]
    /\ log = <<>>
    /\ leads = <<>>
    /\ starts = <<>>
    /\ read_result = [kind |-> "none", text |-> <<>>, n |-> 0, pulls |-> 0]
    /\ calls = 0
    /\ calls_after_end = 0

Policies == {STRICT, REPLACE, IGNORE}

\* The caller pulls while no exception other than StopIteration was raised,
\* and a bounded number of times after StopIteration.
CallerPulls ==
    IF result.kind = "StopIteration"
    THEN calls_after_end < MaxCallsAfterEnd
    ELSE result.kind \in {"none", "char"}

\* One call of next(decoder)
NextCall ==
    /\ CallerPulls
    /\ \E r \in {next(Self)} :
       /\ pos' = r.self.pos
       /\ byte_num' = r.self.byte_num
       /\ first_read' = r.self.first_read
       /\ num_pending_replacement' = r.self.num_pending_replacement
       /\ stuffed_byte' = r.self.stuffed_byte
       /\ log' = r.self.log
       /\ leads' = r.self.leads
       /\ starts' = r.self.starts
       /\ out' = IF r.kind = "char" THEN Append(out, r.val) ELSE out
       /\ result' = [kind |-> r.kind, val |-> r.val]
    /\ read_result' = [kind |-> "none", text |-> <<>>, n |-> 0, pulls |-> 0]
    /\ calls' = calls + 1
    /\ calls_after_end' =
           IF result.kind = "StopIteration"
           THEN calls_after_end + 1 ELSE calls_after_end
    /\ UNCHANGED <<stream, errors, disallow_nonchars>>

\* The generator `next(self) for _ in range(num_bytes)` driven by join():
\* next() is called until num_bytes characters were yielded or a call
\* raises.  `last` is the outcome of the latest of these calls.
RECURSIVE Generator(_, _, _, _, _)
Generator(self, num_bytes, text, pulls, last) ==
    IF num_bytes = 0
    THEN [self |-> self, kind |-> "exhausted", text |-> text,
          pulls |-> pulls, last |-> last]
    ELSE LET r == next(self) IN
         IF r.kind = "char"
         THEN Generator(r.self, num_bytes - 1, Append(text, r.val),
                        pulls + 1, [kind |-> r.kind, val |-> r.val])
         ELSE [self |-> r.self, kind |-> r.kind, text |-> text,
               pulls |-> pulls + 1, last |-> [kind |-> r.kind, val |-> r.val]]

\* What read() does with the way the generator ended.  A StopIteration
\* raised inside the generator body does not reach the caller of read():
\* the interpreter turns it into RuntimeError (PEP 479, Python >= 3.7) or,
\* before that, takes it as the end of the generator, so that join()
\* returns what was yielded so far.  Any other exception propagates.
ReadOutcomes(kind) ==
    IF kind = "exhausted" THEN {"str"}
    ELSE IF kind = "StopIteration" THEN {"RuntimeError", "str"}
    ELSE {kind}

\* One call of decoder.read(num_bytes)
Read(num_bytes) ==
    /\ CallerPulls
    /\ \E g \in {Generator(Self, num_bytes, <<>>, 0, result)} :
       /\ pos' = g.self.pos
       /\ byte_num' = g.self.byte_num
       /\ first_read' = g.self.first_read
       /\ num_pending_replacement' = g.self.num_pending_replacement
       /\ stuffed_byte' = g.self.stuffed_byte
       /\ log' = g.self.log
       /\ leads' = g.self.leads
       /\ starts' = g.self.starts
       /\ out' = out \o g.text
       /\ result' = g.last
       /\ calls' = calls + g.pulls
       /\ calls_after_end' =
              IF result.kind = "StopIteration" /\ g.pulls > 0
              THEN calls_after_end + 1 ELSE calls_after_end
       /\ \E k \in ReadOutcomes(g.kind) :
              read_result' = [kind |-> k,
                              text |-> IF k = "str" THEN g.text ELSE <<>>,
                              n |-> num_bytes, pulls |-> g.pulls]
    /\ UNCHANGED <<stream, errors, disallow_nonchars>>

Next ==
    \/ NextCall
    \/ \E num_bytes \in 0..MaxRead : Read(num_bytes)

----------------------------------------------------------------------------
(* Suppliers                                                                *)

SeqsUpTo(S, n) == UNION {[1..k -> S] : k \in 0..n}

\* 41, 80, BF, C2, E2, ED, EF, F0, F4, FF: an ASCII byte, two continuation
\* bytes, leading bytes of 2-, 3- and 4-byte sequences, an impossible byte
Alphabet == {65, 128, 191, 194, 226, 237, 239, 240, 244, 255}

Init ==
    \E s \in SeqsUpTo(Alphabet, MaxLen), e \in Policies, d \in BOOLEAN :
        Construct(s, e, d)

Spec == Init /\ [][Next]_vars

----------------------------------------------------------------------------
(* Suppliers holding canonical encodings of scalar values                   *)

\* A conformant UTF-8 encoder (the input generator of the round trip).
Encode(v) ==
    IF v < 128 THEN <<v>>
    ELSE IF v < 2048 THEN <<192 + (v \div 64), 128 + (v % 64)>>
    ELSE IF v < 65536
    THEN <<224 + (v \div 4096), 128 + ((v \div 64) % 64), 128 + (v % 64)>>
    ELSE <<240 + (v \div 262144), 128 + ((v \div 4096) % 64),
           128 + ((v \div 64) % 64), 128 + (v % 64)>>

\* Scalar values at the edges of every range the decoder distinguishes:
\* 0, 41, 7F, 80, 7FF, 800, 20AC, CFFF, D000, D7FF, E000, FDCF, FDD0, FDEF,
\* FDF0, FFFD, FFFE, FFFF, 10000, 1F600, 10FFFF
Scalars ==
    {0, 65, 127, 128, 2047, 2048, 8364, 53247, 53248, 55295, 57344, 64975,
     64976, 65007, 65008, 65533, 65534, 65535, 65536, 128512, 1114111}

InitScalars ==
    \E v \in Scalars, e \in Policies, d \in BOOLEAN :
        \/ Construct(Encode(v), e, d)
        \/ \E w \in Scalars : Construct(Encode(v) \o Encode(w), e, d)

SpecScalars == InitScalars /\ [][Next]_vars

----------------------------------------------------------------------------
(* Suppliers holding one multi-byte form: a leading byte and up to          *)
(* length - 1 well-formed continuation bytes                                *)

\* C0, C1, C2, DF, E0, E2, ED, EF, F0, F4, F7, F8, FB, FC, FD
Leads == {192, 193, 194, 223, 224, 226, 237, 239, 240, 244, 247, 248, 251,
          252, 253}

\* 80, 84, 90, BF
ContBytes == {128, 132, 144, 191}

\* The length a leading byte announces (the table of high-bit patterns).
FormLength(b) ==
    IF b >= 192 /\ b <= 223 THEN 2
    ELSE IF b >= 224 /\ b <= 239 THEN 3
    ELSE IF b >= 240 /\ b <= 247 THEN 4
    ELSE IF b >= 248 /\ b <= 251 THEN 5
    ELSE IF b >= 252 /\ b <= 253 THEN 6
    ELSE 0

\* E2 82 and E2 82 AC
ExampleForms == {<<226, 130>>, <<226, 130, 172>>}

InitForms ==
    \E e \in Policies, d \in BOOLEAN :
        \/ \E l \in Leads :
              \E t \in SeqsUpTo(ContBytes, FormLength(l) - 1) :
                  Construct(<<l>> \o t, e, d)
        \/ \E s \in ExampleForms : Construct(s, e, d)

SpecForms == InitForms /\ [][Next]_vars

----------------------------------------------------------------------------
(* Suppliers with one byte ranging over all 256 values                      *)

\* what precedes the free byte: nothing, C2, E2 80, ED
Before == {<<>>, <<194>>, <<226, 128>>, <<237>>}

\* what follows it: nothing, 41, 80
After == {<<>>, <<65>>, <<128>>}

InitAnyByte ==
    \E p \in Before, b \in 0..255, q \in After, e \in Policies,
       d \in BOOLEAN :
        Construct(p \o <<b>> \o q, e, d)

SpecAnyByte == InitAnyByte /\ [][Next]_vars

\* Long streams: nothing or an overlong 6-byte form (FC 80 80 80 80 80),
\* then up to MaxRun copies of one byte that is rejected in leading
\* position (80, ED, FF), then nothing or 'A'.
MaxRun == 7

Repeat(b, n) == [i \in 1..n |-> b]

RunHeads == {<<>>, <<252, 128, 128, 128, 128, 128>>}

RunBytes == {128, 237, 255}

InitRuns ==
    \E h \in RunHeads, b \in RunBytes, n \in 0..MaxRun,
       t \in {<<>>, <<65>>}, e \in Policies, d \in BOOLEAN :
        Construct(h \o Repeat(b, n) \o t, e, d)

SpecRuns == InitRuns /\ [][Next]_vars

\* Mixed streams: up to MaxPieces pieces, each a character or an invalid
\* sequence: 'A', a stray continuation byte, a 2-byte leading byte alone,
\* a truncated 3-byte form, an encoded surrogate, FF, U+FFFD itself,
\* the noncharacter U+FFFE, the overlong C0 80.
MaxPieces == 2

Pieces == {<<65>>, <<128>>, <<194>>, <<226, 130>>, <<237, 160, 128>>,
           <<255>>, <<239, 191, 189>>, <<239, 191, 190>>, <<192, 128>>}

RECURSIVE Concat(_)
Concat(ss) == IF ss = <<>> THEN <<>> ELSE Head(ss) \o Concat(Tail(ss))

InitPieces ==
    \E ss \in SeqsUpTo(Pieces, MaxPieces), e \in Policies, d \in BOOLEAN :
        Construct(Concat(ss), e, d)

SpecPieces == InitPieces /\ [][Next]_vars

----------------------------------------------------------------------------
(* Vocabulary of the properties                                             *)

Char(c) == [kind |-> "char", val |-> c]

EndOfStream == result.kind = "StopIteration"

Failed == result.kind = "InvalidUTF8Encoding"

Surrogates == 55296..57343

\* the outcome of the first next() of a fresh decoder on the bytes s
FirstResult(s, e, d) ==
    LET r == next([stream |-> s, pos |-> 1, errors |-> e,
                   disallow_nonchars |-> d, byte_num |-> 0,
                   first_read |-> TRUE, num_pending_replacement |-> 0,
                   stuffed_byte |-> None, log |-> <<>>, leads |-> <<>>,
                   starts |-> <<>>,
                   attempt |-> [lead |-> None, pos |-> 0, why |-> ""]])
    IN  [kind |-> r.kind, val |-> r.val]

----------------------------------------------------------------------------
(* C1  Round trip                                                           *)

\* C1: for every scalar value v outside the surrogate range and every
\* policy, on the canonical encoding of v the first next() returns v having
\* consumed all of its bytes and the second signals end-of-stream; on the
\* concatenation of two canonical encodings the decoder returns exactly the
\* two scalars.
C1_RoundTrip ==
    /\ \A v \in Scalars \ Surrogates :
          stream = Encode(v) =>
              /\ calls = 1 => result = Char(v) /\ pos = Len(stream) + 1
              /\ calls = 2 => EndOfStream /\ out = <<v>>
    /\ \A v, w \in Scalars \ Surrogates :
          stream = Encode(v) \o Encode(w) /\ calls = 2 => out = <<v, w>>

----------------------------------------------------------------------------
(* C2  One replacement character per consumed byte                          *)

\* the bytes of the invalid sequence an error() invocation reports: its
\* leading byte and the bytes read after it, less the byte handed back to
\* the lookahead
InvalidBytes(e) ==
    1 + (e.to - e.from) - (IF e.stuffed /= None THEN 1 ELSE 0)

\* C2: under REPLACE every invalid sequence is reported with as many
\* replacement characters as it has bytes, so when end-of-stream is reached
\* the number of characters returned does not exceed the number of bytes of
\* the stream.
C2_ReplacePerByte ==
    errors = REPLACE =>
        /\ \A i \in 1..Len(log) : log[i].n = InvalidBytes(log[i])
        /\ EndOfStream => Len(out) <= Len(stream)

----------------------------------------------------------------------------
(* C10  byte_num                                                            *)

\* C10: byte_num is the number of bytes taken from the supplier so far, so
\* it never exceeds the length of the stream, and the position carried by
\* InvalidUTF8Encoding is that number.
C10_BytePosition ==
    /\ byte_num = pos - 1
    /\ byte_num <= Len(stream)
    /\ Failed => result.val = pos - 1

----------------------------------------------------------------------------
(* Multi-byte forms read from the table of leading bytes: length, payload   *)
(* and value of a leading byte followed by continuation bytes               *)

IsCont(b) == b >= 128 /\ b <= 191

LeadPayload(b) ==
    IF FormLength(b) = 2 THEN b - 192
    ELSE IF FormLength(b) = 3 THEN b - 224
    ELSE IF FormLength(b) = 4 THEN b - 240
    ELSE IF FormLength(b) = 5 THEN b - 248
    ELSE b - 252

RECURSIVE Horner(_, _, _)
Horner(s, i, acc) ==
    IF i > Len(s) THEN acc ELSE Horner(s, i + 1, acc * 64 + (s[i] - 128))

\* the value of the bytes of s, the continuation bytes not yet present
\* counting as zero payload
FormValue(s) ==
    Horner(s, 2, LeadPayload(s[1])) * (64 ^ (FormLength(s[1]) - Len(s)))

MinValue(n) ==
    IF n = 2 THEN 128
    ELSE IF n = 3 THEN 2048
    ELSE IF n = 4 THEN 65536
    ELSE IF n = 5 THEN 2097152
    ELSE 67108864

\* s is a multi-byte leading byte followed by well-formed continuation bytes
IsForm(s) ==
    /\ Len(s) >= 1
    /\ FormLength(s[1]) >= 2
    /\ Len(s) <= FormLength(s[1])
    /\ \A i \in 2..Len(s) : IsCont(s[i])

IsFullForm(s) == IsForm(s) /\ Len(s) = FormLength(s[1])

IsTruncatedForm(s) == IsForm(s) /\ Len(s) < FormLength(s[1])

\* the bytes of s already carry a value above 0x10FFFF in a form of
\* length >= 4
Overrun(s) == FormLength(s[1]) >= 4 /\ FormValue(s) > 1114111

\* some continuation byte of s takes the value above 0x10FFFF
HasOverrun(s) == \E j \in 2..Len(s) : Overrun(SubSeq(s, 1, j))

\* the number of bytes of s up to the first such continuation byte
FirstOverrun(s) ==
    CHOOSE j \in 2..Len(s) :
        /\ Overrun(SubSeq(s, 1, j))
        /\ \A i \in 2..(j - 1) : ~Overrun(SubSeq(s, 1, i))

Replacements(n) == [i \in 1..n |-> 65533]

----------------------------------------------------------------------------
(* C3  Byte stuffing                                                        *)

\* C3: a byte read in a continuation slot that is not 10xxxxxx is kept in
\* the lookahead and is the leading byte of the next decode attempt; under
\* IGNORE a multi-byte leading byte other than 0xED followed by one ASCII
\* byte a yields a, then end-of-stream.
C3_ByteStuffing ==
    /\ \A i \in 1..Len(log) :
          (log[i].to > log[i].from /\ ~IsCont(stream[log[i].to - 1])) =>
              /\ log[i].stuffed = stream[log[i].to - 1]
              /\ IF Len(leads) > log[i].k
                 THEN leads[log[i].k + 1] = stream[log[i].to - 1]
                 ELSE stuffed_byte = stream[log[i].to - 1]
    /\ (/\ errors = IGNORE
        /\ Len(stream) = 2
        /\ FormLength(stream[1]) >= 2
        /\ stream[1] /= 237
        /\ stream[2] < 128) =>
          /\ calls = 1 => result = Char(stream[2])
          /\ calls = 2 => EndOfStream /\ out = <<stream[2]>>

\* E2 41 under IGNORE has returned 'A'
C3_Witness ==
    /\ errors = IGNORE
    /\ stream = <<226, 65>>
    /\ calls = 1
    /\ result = Char(65)
    /\ Len(log) = 1 /\ log[1].stuffed = 65

----------------------------------------------------------------------------
(* C4  Overlong encodings                                                   *)

\* C4 as stated: every full form of length n whose value is below the
\* minimum for n is rejected with consumed-byte count n.
C4_OverlongAnyValue ==
    (IsFullForm(stream) /\ FormValue(stream) < MinValue(Len(stream))
     /\ calls >= 1) =>
        /\ Len(log) >= 1
        /\ log[1].k = 1
        /\ log[1].n = Len(stream)

\* C4 amended: every full form of length n whose value is below the minimum
\* for n is rejected; the consumed-byte count is n, after all n bytes were
\* read, when the value is not above 0x10FFFF, and otherwise (n = 5 or 6)
\* it is the number of bytes read up to the continuation byte that takes
\* the value above 0x10FFFF.  C0 80 fails under STRICT with byte position 2
\* and yields exactly two replacement characters, then end-of-stream, under
\* REPLACE.
C4_Overlong ==
    /\ (IsFullForm(stream) /\ FormValue(stream) < MinValue(Len(stream))
        /\ calls >= 1) =>
          /\ Len(log) >= 1
          /\ log[1].k = 1
          /\ IF HasOverrun(stream)
             THEN /\ Len(stream) >= 5
                  /\ log[1].n = FirstOverrun(stream)
                  /\ log[1].n < Len(stream)
                  /\ log[1].to = log[1].n + 1
             ELSE /\ log[1].n = Len(stream)
                  /\ log[1].to = Len(stream) + 1
    /\ (stream = <<192, 128>> /\ errors = STRICT /\ calls = 1) =>
          result = [kind |-> "InvalidUTF8Encoding", val |-> 2]
    /\ (stream = <<192, 128>> /\ errors = REPLACE) =>
          /\ calls \in 1..2 => result = Char(65533)
          /\ calls >= 3 => EndOfStream /\ out = Replacements(2)

\* an overlong 6-byte form (FC 80 80 80 80 BF) was rejected with count 6
C4_Witness ==
    /\ stream = <<252, 128, 128, 128, 128, 191>>
    /\ calls = 1
    /\ Len(log) >= 1
    /\ log[1].n = 6

----------------------------------------------------------------------------
(* C5  Truncated sequences                                                  *)

\* C5 as stated: a form cut after k < n - 1 continuation bytes is reported
\* with consumed-byte count 1 + k.
C5_TruncationAnyLead ==
    (IsTruncatedForm(stream) /\ calls >= 1) =>
        /\ Len(log) >= 1
        /\ log[1].n = Len(stream)

\* C5 amended: for a form cut after k < n - 1 continuation bytes, STRICT
\* fails, IGNORE signals end-of-stream without a scalar and REPLACE yields
\* exactly 1 + k replacement characters and then end-of-stream; the first
\* error is reported with consumed-byte count 1 when the leading byte is
\* 0xED, with the number of bytes read up to the continuation byte that
\* takes the value above 0x10FFFF when there is one (n >= 4), and with
\* 1 + k otherwise.
C5_Truncation ==
    IsTruncatedForm(stream) =>
        /\ calls >= 1 =>
              /\ Len(log) >= 1
              /\ log[1].k = 1
              /\ log[1].n = IF stream[1] = 237 THEN 1
                            ELSE IF HasOverrun(stream)
                            THEN FirstOverrun(stream)
                            ELSE Len(stream)
        /\ (errors = STRICT /\ calls = 1) => Failed
        /\ (errors = IGNORE /\ calls >= 1) => EndOfStream /\ out = <<>>
        /\ (errors = REPLACE /\ calls \in 1..Len(stream)) =>
               result = Char(65533)
        /\ (errors = REPLACE /\ calls > Len(stream)) =>
               EndOfStream /\ out = Replacements(Len(stream))

\* E2 82 under REPLACE has yielded two replacement characters and
\* end-of-stream
C5_Witness ==
    /\ stream = <<226, 130>>
    /\ errors = REPLACE
    /\ EndOfStream
    /\ out = Replacements(2)
    /\ log[1].n = 2

----------------------------------------------------------------------------
(* C6  Noncharacters                                                        *)

\* the codepoints the noncharacter policy names: FDD0..FDEF and >= FFFE
Noncharacter(c) == c \in 64976..65007 \/ c \in 65534..1114111

\* C6: on the canonical encoding of a codepoint c in FDD0..FDEF or >= FFFE,
\* a decoder that disallows noncharacters fails under STRICT and one that
\* allows them returns c; for every other c the first next() has the same
\* outcome whatever the flag.
C6_Noncharacters ==
    \A c \in Scalars :
        (stream = Encode(c) /\ calls = 1) =>
            /\ (Noncharacter(c) /\ disallow_nonchars /\ errors = STRICT)
                   => Failed
            /\ (Noncharacter(c) /\ ~disallow_nonchars)
                   => result = Char(c)
            /\ ~Noncharacter(c)
                   => result = FirstResult(stream, errors, ~disallow_nonchars)

\* EF BF BE was rejected by a STRICT decoder that disallows noncharacters
C6_Witness ==
    /\ stream = <<239, 191, 190>>
    /\ disallow_nonchars
    /\ errors = STRICT
    /\ calls = 1
    /\ Failed

----------------------------------------------------------------------------
(* C7  Reserved leading byte                                                *)

\* C7: every decode attempt whose leading byte is 0xED is rejected with
\* consumed-byte count 1 without reading a further byte; under STRICT a
\* stream starting with 0xED fails on the first next() with byte position 1.
C7_ReservedLeadingByte ==
    /\ \A k \in 1..Len(leads) :
          leads[k] = 237 =>
              \E i \in 1..Len(log) :
                  /\ log[i].k = k
                  /\ log[i].lead = 237
                  /\ log[i].n = 1
                  /\ log[i].to = log[i].from
    /\ (errors = STRICT /\ Len(stream) >= 1 /\ stream[1] = 237
        /\ calls >= 1) =>
          /\ calls = 1
          /\ result = [kind |-> "InvalidUTF8Encoding", val |-> 1]
          /\ pos = 2

\* ED followed by two continuation bytes failed under STRICT at position 1
C7_Witness ==
    /\ errors = STRICT
    /\ stream = <<237, 160, 128>>
    /\ result = [kind |-> "InvalidUTF8Encoding", val |-> 1]

----------------------------------------------------------------------------
(* C8  Output range                                                         *)

\* C8: every value returned by next() is in 0..0x10FFFF and not in
\* D800..DFFF.
C8_OutputRange ==
    \A i \in 1..Len(out) :
        /\ out[i] >= 0
        /\ out[i] <= 1114111
        /\ out[i] \notin Surrogates

\* the bytes of the surrogate U+DFFF (ED BF BF) were decoded to the end by
\* a REPLACE decoder, and a 4-byte form returned a value above U+FFFF
C8_Witness ==
    \/ stream = <<237, 191, 191>> /\ errors = REPLACE /\ EndOfStream
                                  /\ Len(out) = 3
    \/ Len(out) = 1 /\ out[1] > 65535

----------------------------------------------------------------------------
(* C9  No failure under REPLACE and IGNORE                                  *)

\* C9: under REPLACE and IGNORE every next() returns a character or signals
\* end-of-stream; InvalidUTF8Encoding, AssertionError and ValueError are
\* never raised.
C9_NoFailure ==
    errors \in {REPLACE, IGNORE} =>
        result.kind \in {"none", "char", "StopIteration"}

\* an IGNORE decoder reached end-of-stream after FE in leading position
C9_Witness ==
    /\ errors = IGNORE
    /\ EndOfStream
    /\ Len(leads) >= 1
    /\ leads[1] = 254

----------------------------------------------------------------------------
(* C11  End-of-stream is not an error and repeats                           *)

\* nothing is owed, the lookahead is empty and the supplier has no byte left
Exhausted ==
    /\ num_pending_replacement = 0
    /\ stuffed_byte = None
    /\ pos > Len(stream)

\* C11: under every policy a next() called with no pending replacement, an
\* empty lookahead and an exhausted supplier raises StopIteration, never
\* InvalidUTF8Encoding, and returns no character; the decoder is left in
\* that condition, and every next() after a StopIteration raises
\* StopIteration again without returning a character.
C11_EndOfStream ==
    [][(calls' > calls /\ (Exhausted \/ EndOfStream))
          => /\ result'.kind = "StopIteration"
             /\ out' = out
             /\ pos' = pos
             /\ Exhausted']_vars

\* a STRICT decoder that returned a character signalled end-of-stream three
\* times in a row
C11_Witness ==
    /\ errors = STRICT
    /\ EndOfStream
    /\ calls_after_end = MaxCallsAfterEnd
    /\ Len(out) >= 1

----------------------------------------------------------------------------
(* C12  read(N) and N successive next() calls                               *)

\* the last n characters returned so far
LastOut(n) == SubSeq(out, Len(out) - n + 1, Len(out))

\* C12: read(N) ends the way the N next() calls it stands for end: when one
\* of them raises (InvalidUTF8Encoding under STRICT, StopIteration when the
\* stream holds fewer than N characters) read(N) raises the same, and
\* otherwise it returns the N characters they return, in order.
C12_ReadAsPulls ==
    read_result.kind /= "none" =>
        IF read_result.pulls > 0 /\ result.kind /= "char"
        THEN read_result.kind = result.kind
        ELSE /\ read_result.kind = "str"
             /\ read_result.pulls = read_result.n
             /\ read_result.text = LastOut(read_result.n)

\* the part of C12 that the decoder keeps: a read(N) none of whose next()
\* calls signals end-of-stream returns their N characters or raises their
\* InvalidUTF8Encoding
C12_ReadBeforeEnd ==
    (read_result.kind /= "none" /\ ~EndOfStream) => C12_ReadAsPulls

----------------------------------------------------------------------------
(* C13  Lookahead invariant                                                 *)

\* C13: under every policy the lookahead is empty or holds one byte, no
\* call ends in AssertionError (stuff_byte never finds the lookahead
\* occupied, also not in a retry under IGNORE), and at every error the
\* lookahead holds a byte exactly when the error is the one that has just
\* stuffed it.
C13_Lookahead ==
    /\ stuffed_byte \in {None} \cup (0..255)
    /\ result.kind /= "AssertionError"
    /\ read_result.kind /= "AssertionError"
    /\ \A i \in 1..Len(log) :
           (log[i].stuffed /= None) <=> (log[i].why = "not a continuation byte")

\* one next() under IGNORE stuffed a byte, retried from it, stuffed the
\* byte after it and returned that one
C13_Witness ==
    /\ errors = IGNORE
    /\ calls = 1
    /\ Len(log) = 2
    /\ log[1].why = "not a continuation byte"
    /\ log[2].why = "not a continuation byte"
    /\ log[2].lead = log[1].stuffed
    /\ result = Char(log[2].stuffed)

----------------------------------------------------------------------------
(* C14  Pending replacements                                                *)

Min(a, b) == IF a <= b THEN a ELSE b

\* C14: num_pending_replacement is never negative, and the next() calls
\* made while it is positive each return the replacement character and
\* lower it by exactly one, leaving the supplier's cursor, byte_num and the
\* lookahead as they were (stated over the calls of one step: one for
\* next(), up to N for read(N)).
C14_Pending ==
    /\ [](num_pending_replacement >= 0)
    /\ [][(calls' > calls /\ num_pending_replacement > 0)
             => LET k == calls' - calls
                    m == Min(k, num_pending_replacement)
                IN  /\ Len(out') >= Len(out) + m
                    /\ \A i \in 1..m : out'[Len(out) + i] = REPLACEMENT_CHAR
                    /\ k <= num_pending_replacement
                          => /\ num_pending_replacement'
                                    = num_pending_replacement - k
                             /\ result' = Char(REPLACEMENT_CHAR)
                             /\ Len(out') = Len(out) + k
                             /\ pos' = pos
                             /\ byte_num' = byte_num
                             /\ stuffed_byte' = stuffed_byte
                             /\ log' = log]_vars

\* a REPLACE decoder that owed two replacements for a three-byte error
\* with a byte in the lookahead has returned one of them
C14_Witness ==
    /\ errors = REPLACE
    /\ Len(log) = 1
    /\ log[1].n = 3
    /\ log[1].stuffed /= None
    /\ out = <<REPLACEMENT_CHAR, REPLACEMENT_CHAR>>
    /\ num_pending_replacement = 1
    /\ stuffed_byte = log[1].stuffed
    /\ pos = log[1].to

----------------------------------------------------------------------------
(* C15  5- and 6-byte forms                                                 *)

\* s is a leading byte in 0xF8..0xFD followed by its four or five
\* well-formed continuation bytes
IsLegacyForm(s) == IsFullForm(s) /\ FormLength(s[1]) >= 5

\* C15 as stated: every such sequence is rejected, and only after all of
\* its bytes were consumed, with consumed-byte count equal to its length.
C15_FullCountOnly ==
    (IsLegacyForm(stream) /\ calls >= 1) =>
        /\ Len(log) >= 1
        /\ log[1].k = 1
        /\ log[1].n = Len(stream)
        /\ log[1].to = Len(stream) + 1

\* C15 amended: every such sequence is rejected by its first decode
\* attempt and none of its bytes yields a character other than a
\* replacement; when a continuation byte takes the accumulated value above
\* 0x10FFFF the range check rejects it there, with the number of bytes read
\* so far (the full length only if that byte is the last one), and
\* otherwise the overlong check rejects it after all bytes, with
\* consumed-byte count equal to the length.
C15_LegacyForms ==
    (IsLegacyForm(stream) /\ calls >= 1) =>
        /\ Len(log) >= 1
        /\ log[1].k = 1
        /\ log[1].from = 2
        /\ IF HasOverrun(stream)
           THEN /\ log[1].why = "exceeds max"
                /\ log[1].n = FirstOverrun(stream)
                /\ log[1].to = FirstOverrun(stream) + 1
           ELSE /\ log[1].why = "overlong"
                /\ FormValue(stream) < MinValue(Len(stream))
                /\ log[1].n = Len(stream)
                /\ log[1].to = Len(stream) + 1
        /\ \A i \in 1..Len(out) : out[i] = REPLACEMENT_CHAR
        /\ errors = STRICT => Failed
        /\ errors = IGNORE => EndOfStream

\* F8 84 90 80 80 was rejected after its third byte
C15_Witness ==
    /\ stream = <<248, 132, 144, 128, 128>>
    /\ calls = 1
    /\ Len(log) >= 1
    /\ log[1].n = 3
    /\ log[1].to = 4

----------------------------------------------------------------------------
(* C16  The leading-byte/value cross-check                                  *)

\* the error history after the first next() of a fresh decoder on the
\* bytes s
FirstLog(s, e, d) ==
    next([stream |-> s, pos |-> 1, errors |-> e,
          disallow_nonchars |-> d, byte_num |-> 0,
          first_read |-> TRUE, num_pending_replacement |-> 0,
          stuffed_byte |-> None, log |-> <<>>, leads |-> <<>>,
          starts |-> <<>>,
          attempt |-> [lead |-> None, pos |-> 0, why |-> ""]]).self.log

\* the sequences that reach the two checks with a leading byte and a value
\* the cross-check names: every three-byte form with leading byte 0xE0,
\* and every four-byte form with leading byte 0xF0 whose second byte
\* leaves the value below 0x10000
CrossCheckForms ==
    {<<224, a, b>> : a \in 128..191, b \in 128..191}
        \cup {<<240, a, b, c>> : a \in 128..143, b \in 128..191,
                                 c \in 128..191}

\* C16 as stated: at least one byte sequence passes the overlong check and
\* is rejected by the cross-check (looked for with the decoder's policy and
\* noncharacter setting).
C16_CrossCheckRejectsSome ==
    \E s \in CrossCheckForms :
        LET l == FirstLog(s, errors, disallow_nonchars)
        IN  \E i \in 1..Len(l) : l[i].why = "invalid leading byte"

\* C16 amended: no byte sequence is rejected by the cross-check; a
\* sequence with leading byte 0xE0 and value below 0x0800, or leading byte
\* 0xF0 and value below 0x10000, is a 3- or 4-byte form below the minimum
\* for its length and is already rejected by the overlong check, with the
\* same consumed-byte count.
C16_CrossCheckIdle ==
    /\ \A i \in 1..Len(log) : log[i].why /= "invalid leading byte"
    /\ (/\ IsFullForm(stream)
        /\ stream[1] \in {224, 240}
        /\ IsInvalidLeading(stream[1], FormValue(stream))
        /\ calls >= 1) =>
          /\ Len(log) >= 1
          /\ log[1].why = "overlong"
          /\ log[1].n = Len(stream)

\* E0 80 BF, whose value 0x3F meets the cross-check's condition, was
\* rejected as overlong
C16_Witness ==
    /\ stream = <<224, 128, 191>>
    /\ calls = 1
    /\ Len(log) >= 1
    /\ log[1].why = "overlong"
    /\ log[1].n = 3

----------------------------------------------------------------------------
(* C17  Bytes consumed by one next()                                        *)

\* C17 as stated: under every policy a single next() call moves the
\* supplier's cursor by at most six bytes.
C17_AtMostSix ==
    [][calls' = calls + 1 => (pos' - pos) \in 0..6]_vars

\* C17 amended: under STRICT and REPLACE a single next() call consumes at
\* most six bytes, and none while a replacement is pending; under every
\* policy each decode attempt, rejected or not, consumes at most six bytes
\* counted from the cursor at which it started.  (Under IGNORE one call
\* makes an attempt per rejected sequence, so the call as a whole is
\* bounded only by the bytes that remain.)
C17_Consumption ==
    /\ [](\A i \in 1..Len(log) : (log[i].to - starts[log[i].k]) \in 0..6)
    /\ [][calls' = calls + 1
            => /\ errors /= IGNORE => (pos' - pos) \in 0..6
               /\ num_pending_replacement > 0 => pos' = pos
               /\ Len(starts') > Len(starts)
                     => (pos' - starts'[Len(starts')]) \in 0..6
               /\ pos' <= Len(stream) + 1]_vars

\* one next() under IGNORE consumed more than six bytes and returned a
\* character
C17_Witness ==
    /\ errors = IGNORE
    /\ calls = 1
    /\ pos > 7
    /\ Len(log) > 6
    /\ result.kind = "char"

----------------------------------------------------------------------------
(* C18  Policy consistency                                                  *)

\* A decoder pulled until a next() raises: the characters returned, for
\* each of them whether the error policy produced it (it was owed, or the
\* call recorded an error), the error history and the way the run ended.
RECURSIVE Run(_, _, _)
Run(self, text, by_policy) ==
    LET r == next(self) IN
    IF r.kind = "char"
    THEN Run(r.self, Append(text, r.val),
             Append(by_policy, \/ self.num_pending_replacement > 0
                               \/ Len(r.self.log) > Len(self.log)))
    ELSE [text |-> text, by_policy |-> by_policy, log |-> r.self.log,
          kind |-> r.kind]

\* the run of a fresh REPLACE decoder on the same bytes, with the same
\* noncharacter setting, beside the live decoder
ReplaceRun ==
    Run([stream |-> stream, pos |-> 1, errors |-> REPLACE,
         disallow_nonchars |-> disallow_nonchars, byte_num |-> 0,
         first_read |-> TRUE, num_pending_replacement |-> 0,
         stuffed_byte |-> None, log |-> <<>>, leads |-> <<>>,
         starts |-> <<>>,
         attempt |-> [lead |-> None, pos |-> 0, why |-> ""]], <<>>, <<>>)

RECURSIVE Kept(_, _, _)
\* the characters of text from index i on that the error policy did not
\* produce
Kept(text, by_policy, i) ==
    IF i > Len(text) THEN <<>>
    ELSE IF by_policy[i] THEN Kept(text, by_policy, i + 1)
    ELSE <<text[i]>> \o Kept(text, by_policy, i + 1)

\* the characters of text before the first one the error policy produced
BeforeFirstError(text, by_policy) ==
    LET bad == {i \in 1..Len(text) : by_policy[i]}
    IN  IF bad = {} THEN text
        ELSE SubSeq(text, 1, (CHOOSE i \in bad : \A j \in bad : i <= j) - 1)

IsPrefix(s, t) == Len(s) <= Len(t) /\ s = SubSeq(t, 1, Len(s))

\* C18: on the same bytes and noncharacter setting the three policies
\* detect the same errors at the same byte positions: the error history of
\* the decoder is that of the REPLACE run (its first entry under STRICT,
\* whose failure carries that entry's byte position), the output under
\* IGNORE is the REPLACE output without the characters the error policy
\* produced, and the output under STRICT is the REPLACE output before the
\* first such character.
C18_PolicyConsistency ==
    LET ref == ReplaceRun
        expected ==
            IF errors = REPLACE THEN ref.text
            ELSE IF errors = IGNORE THEN Kept(ref.text, ref.by_policy, 1)
            ELSE BeforeFirstError(ref.text, ref.by_policy)
    IN  /\ ref.kind = "StopIteration"
        /\ IsPrefix(out, expected)
        /\ IsPrefix(log, ref.log)
        /\ EndOfStream => out = expected /\ log = ref.log
        /\ Failed => /\ errors = STRICT
                     /\ out = expected
                     /\ log = <<ref.log[1]>>
                     /\ result.val = ref.log[1].byte_num
        /\ (errors = STRICT /\ ref.log /= <<>>) => ~EndOfStream

\* an IGNORE decoder reached end-of-stream having returned a character
\* and skipped two invalid sequences
C18_Witness ==
    /\ errors = IGNORE
    /\ EndOfStream
    /\ Len(out) >= 1
    /\ Len(log) >= 2
    /\ Len(ReplaceRun.text) > Len(out)

----------------------------------------------------------------------------
(* C19  Termination                                                         *)

\* the bytes the k-th decode attempt read from the supplier: from the
\* cursor at which it started to the cursor at which the next one started
\* (the cursor does not move between attempts)
NewBytes(k) == (IF k < Len(starts) THEN starts[k + 1] ELSE pos) - starts[k]

\* the k-th attempt ended at the end of the stream
ReachedEnd(k) ==
    \E i \in 1..Len(log) : log[i].k = k /\ log[i].why = "stream exhausted"

\* the k-th attempt took its leading byte from the lookahead, where the
\* attempt before it had put it
FromLookahead(k) ==
    \E i \in 1..Len(log) : log[i].k = k - 1 /\ log[i].stuffed = leads[k]

\* the bytes not yet taken as a leading byte or continuation byte
Remaining ==
    (Len(stream) + 1 - pos) + (IF stuffed_byte = None THEN 0 ELSE 1)

\* C19 as stated, the step its bound rests on: every decode attempt reads
\* at least one new byte from the supplier or reaches end-of-stream.
C19_EveryAttemptReads ==
    \A k \in 1..Len(starts) : NewBytes(k) >= 1 \/ ReachedEnd(k)

\* C19 amended: under REPLACE and IGNORE repeated next() calls raise
\* StopIteration after at most 2 * Len(stream) characters: once more calls
\* than that were made, StopIteration has been raised.  A decode attempt reads at least one new byte from the supplier unless it takes
\* its leading byte from the lookahead; an attempt that reads no new byte
\* leaves the lookahead empty, so the attempt before it and the attempt
\* after it each read a new byte (or the latter meets the end of the
\* stream), and the attempts one next() makes under IGNORE are no more than
\* the bytes that remained, the lookahead byte included.
C19_Termination ==
    /\ [](/\ (errors /= STRICT /\ calls > 2 * Len(stream)) => EndOfStream
          /\ Len(out) <= 2 * Len(stream)
          /\ \A k \in 1..Len(starts) :
                /\ NewBytes(k) >= 0
                /\ NewBytes(k) = 0 =>
                      /\ FromLookahead(k)
                      /\ NewBytes(k - 1) >= 1
                      /\ k < Len(starts) => ~FromLookahead(k + 1))
    /\ [][(errors = IGNORE /\ calls' = calls + 1)
            => Len(leads') - Len(leads) <= Remaining]_vars

\* one next() under IGNORE on C2 FF made three attempts: the second took FF
\* from the lookahead and read no new byte, the third met the end of the
\* stream
C19_Witness ==
    /\ errors = IGNORE
    /\ calls = 1
    /\ EndOfStream
    /\ leads = <<194, 255>>
    /\ NewBytes(2) = 0
    /\ FromLookahead(2)

----------------------------------------------------------------------------
(* C20  Ordering under REPLACE                                              *)

\* the characters the j-th decode attempt of a REPLACE decoder yields: one
\* per consumed byte when it was rejected, else the decoded one
AttemptOutputs(j) ==
    IF \E i \in 1..Len(log) : log[i].k = j
    THEN (CHOOSE e \in {log[i] : i \in 1..Len(log)} : e.k = j).n
    ELSE 1

RECURSIVE OutputsBefore(_)
\* the characters the attempts before the k-th yield
OutputsBefore(k) ==
    IF k <= 1 THEN 0 ELSE OutputsBefore(k - 1) + AttemptOutputs(k - 1)

\* C20: under REPLACE, after an error that stuffed a byte, the replacement
\* characters owed for that error come first in the output and the
\* character for the stuffed byte strictly after them: while replacements
\* are owed next() returns one of them and neither reads the lookahead nor
\* starts an attempt, the stuffed byte stays in the lookahead until the
\* last of them was returned, and it is the leading byte of the attempt
\* whose output follows them.
C20_Ordering ==
    /\ [](errors = REPLACE =>
            /\ Len(out) + num_pending_replacement
                   = OutputsBefore(Len(leads) + 1)
            /\ \A i \in 1..Len(log) :
                  log[i].stuffed /= None =>
                      LET k == log[i].k
                          first == OutputsBefore(k) + 1
                          last == first + log[i].n - 1
                      IN  /\ \A j \in first..Min(last, Len(out)) :
                                out[j] = REPLACEMENT_CHAR
                          /\ IF Len(leads) = k
                             THEN /\ stuffed_byte = log[i].stuffed
                                  /\ Len(out) <= last
                             ELSE /\ leads[k + 1] = log[i].stuffed
                                  /\ Len(out) > last)
    /\ [][(errors = REPLACE /\ calls' = calls + 1
            /\ num_pending_replacement > 0)
             => /\ stuffed_byte' = stuffed_byte
                /\ leads' = leads
                /\ out' = Append(out, REPLACEMENT_CHAR)]_vars

\* E2 80 41 under REPLACE: three replacement characters, then 'A', then
\* end-of-stream
C20_Witness ==
    /\ errors = REPLACE
    /\ stream = <<226, 128, 65>>
    /\ EndOfStream
    /\ log[1].stuffed = 65
    /\ out = Replacements(3) \o <<65>>

====
